---------------------------- MODULE Spec2Model ----------------------------
(***************************************************************************)
(* LaunchList: the waitlist signup server actions (vanilla-claude `signup` *)
(* and skills-claude `submitWaitlist`), the Prisma `Waitlist` table they   *)
(* write to, and the admin analytics queries of the dashboard skill.       *)
(*                                                                         *)
(* Strings that the code inspects character by character (the email) are  *)
(* sequences of one-character strings.  An optional string (string | null) *)
(* is a sequence of length at most one: << >> is null, << s >> is s.       *)
(***************************************************************************)
EXTENDS Integers, Sequences, FiniteSets, TLC

(***************************************************************************)
(* Bounds of the model.                                                    *)
(***************************************************************************)
NReq == 2          \* number of signup requests (each runs the action once)

Requests == 1..NReq

(***************************************************************************)
(* Optional values.                                                        *)
(***************************************************************************)
Null == << >>
Some(s) == << s >>
IsNull(o) == o = Null
Val(o) == o[1]

(***************************************************************************)
(* Character-level string functions of JavaScript used by the actions.     *)
(***************************************************************************)
Letters == {"a", "b", "c", "o", "A", "B"}

IsSpace(c) == c = " "

LowerChar(c) == IF c = "A" THEN "a" ELSE IF c = "B" THEN "b" ELSE c

\* String.prototype.toLowerCase
toLowerCase(s) == [i \in 1..Len(s) |-> LowerChar(s[i])]

\* String.prototype.trim: drops the leading and the trailing white space
RECURSIVE trimStart(_)
trimStart(s) ==
  IF s # << >> /\ IsSpace(Head(s)) THEN trimStart(Tail(s)) ELSE s

RECURSIVE trimEnd(_)
trimEnd(s) ==
  IF s # << >> /\ IsSpace(s[Len(s)])
  THEN trimEnd(SubSeq(s, 1, Len(s) - 1)) ELSE s

trim(s) == trimEnd(trimStart(s))

\* [^\s@]+ : a non-empty run without white space and without "@"
NoSpaceAt(s) ==
  /\ Len(s) >= 1
  /\ \A i \in 1..Len(s) : ~IsSpace(s[i]) /\ s[i] # "@"

\* emailRegex = /^[^\s@]+@[^\s@]+\.[^\s@]+$/  (vanilla signup.ts)
emailRegexTest(s) ==
  \E i \in 1..Len(s) :
    /\ s[i] = "@"
    /\ NoSpaceAt(SubSeq(s, 1, i - 1))
    /\ \E j \in (i + 1)..Len(s) :
         /\ s[j] = "."
         /\ NoSpaceAt(SubSeq(s, i + 1, j - 1))
         /\ NoSpaceAt(SubSeq(s, j + 1, Len(s)))

\* a non-empty run of letters
AllLetters(s) ==
  /\ Len(s) >= 1
  /\ \A i \in 1..Len(s) : s[i] \in Letters

\* dot-separated non-empty runs of letters
RECURSIVE DotAtoms(_)
DotAtoms(s) ==
  \/ AllLetters(s)
  \/ \E j \in 1..Len(s) :
       /\ s[j] = "."
       /\ AllLetters(SubSeq(s, 1, j - 1))
       /\ DotAtoms(SubSeq(s, j + 1, Len(s)))

\* z.string().email(): local part of dot-separated atoms, "@", one or more
\* domain labels each followed by ".", and a top-level label of two or
\* more letters; no white space anywhere.
zodEmail(s) ==
  \E i \in 1..Len(s) :
    /\ s[i] = "@"
    /\ DotAtoms(SubSeq(s, 1, i - 1))
    /\ \E j \in (i + 1)..Len(s) :
         /\ s[j] = "."
         /\ DotAtoms(SubSeq(s, i + 1, j - 1))
         /\ AllLetters(SubSeq(s, j + 1, Len(s)))
         /\ Len(s) - j >= 2

(***************************************************************************)
(* State.                                                                  *)
(***************************************************************************)
VARIABLES
  variant,      \* which application is deployed: "vanilla" or "skills"
  store,        \* the Waitlist table, in insertion order
  now,          \* the clock of the database server, in half days
  pc,           \* per request: "idle", "creating" (awaiting create), "done"
  inEmail,      \* per request: formData.get("email")
  data,         \* per request: the payload handed to prisma.waitlist.create
  dbRes,        \* per request: what prisma.waitlist.create reported
  result,       \* per request: what the server action returned
  doneAtBegin,  \* per request: the requests that had returned when it began
  dash,         \* the getDashboardStats call in flight, if any
  reply,        \* what the last analytics call returned
  clock,        \* the clock of the web server, in units of 15 / WindowLen min
  hits,         \* the store of loginLimiter: per ip, when it let a call pass
  failures,     \* per ip: when a login from it returned Invalid credentials
  flight,       \* per slot: a call of login that has not returned yet
  passed,       \* per ip: the limiter calls of the logins that went on
  jar,          \* per browser: the admin_session cookie it holds
  issued,       \* the sealed sessions handed out so far
  gone,         \* the sealed sessions that a logout has destroyed
  loggedOut,    \* the browsers whose last login or logout was a logout
  visit,        \* the request to an /admin path that is in progress
  resp,         \* the last response of login, logout or an /admin path
  status,       \* per request: the status of the SignupForm that sent it
  shown,        \* per request: the count its page displays
  fetch,        \* per request: the calls of refreshCount in flight
  refreshed,    \* per request: the refreshes of the counter it has caused
  calls,        \* the calls of signup that handleSubmit is awaiting
  answers       \* the counts of /api/count on their way to the Counter

writer == << pc, inEmail, data, dbRes, result, doneAtBegin >>
guard == << clock, hits, failures, flight, passed, jar, issued, gone,
           loggedOut, visit, resp >>
page == << status, shown, fetch, refreshed, calls, answers >>
vars == << variant, store, now, pc, inEmail, data, dbRes, result, doneAtBegin,
           dash, reply, clock, hits, failures, flight, passed, jar, issued,
           gone, loggedOut,
           visit, resp, status, shown, fetch, refreshed, calls, answers >>

(***************************************************************************)
(* Inputs of the server actions.                                           *)
(***************************************************************************)
Addr(local) == << local, "@", "b", ".", "c", "o" >>

EmailInputs ==
  { Null,                                   \* field missing
    Some(<< >>),                            \* ""
    Some(<< "a", "b", ".", "c", "o" >>),    \* "ab.co"
    Some(<< "a", "@", "b", ".", "c" >>),    \* "a@b.c"
    Some(Addr("a")),                        \* "a@b.co"
    Some(Addr("A")),                        \* "A@b.co"
    Some(Addr("b")),                        \* "b@b.co"
    Some(Addr("a") \o << " " >>),           \* "a@b.co "
    Some(<< " " >> \o Addr("A")) }          \* " A@b.co"

\* (utm_source, referrer) as the form sends them
AttributionInputs ==
  { << Null, Null >>, << Some(""), Some("") >>, << Some("tw"), Some("ref") >> }

(***************************************************************************)
(* Values reported by prisma.waitlist.create.                              *)
(***************************************************************************)
NoCall == [status |-> "none", known |-> FALSE, code |-> ""]
Created == [status |-> "ok", known |-> FALSE, code |-> ""]
\* PrismaClientKnownRequestError with code P2002: unique constraint failed
UniqueViolation == [status |-> "error", known |-> TRUE, code |-> "P2002"]
\* any other failure: a known request error with another code, or an error
\* that is no PrismaClientKnownRequestError and carries no code
OtherFailures ==
  { [status |-> "error", known |-> TRUE, code |-> "P1001"],
    [status |-> "error", known |-> FALSE, code |-> ""] }

(***************************************************************************)
(* Values returned by the server actions.                                  *)
(***************************************************************************)
Pending == [kind |-> "pending", success |-> FALSE, text |-> ""]
Threw == [kind |-> "threw", success |-> FALSE, text |-> ""]
Ok(message) == [kind |-> "value", success |-> TRUE, text |-> message]
Err(message) == [kind |-> "value", success |-> FALSE, text |-> message]

\* source || null
OrNull(o) == IF IsNull(o) \/ Val(o) = "" THEN Null ELSE o

(***************************************************************************)
(* vanilla-claude/app/actions/signup.ts                                    *)
(***************************************************************************)
\* the validation without the test of emailRegex
signupValidateRequiredOnly(email) ==
  IF IsNull(email) \/ Val(email) = << >>
  THEN Some(Err("Email is required"))
  ELSE Null

\* lines 14-22: Null when the email passes, else the error returned
signupValidate(email) ==
  IF IsNull(email) \/ Val(email) = << >>
  THEN Some(Err("Email is required"))
  ELSE IF ~emailRegexTest(Val(email))
       THEN Some(Err("Please enter a valid email address"))
       ELSE Null

\* email.trim() without toLowerCase()
sanitizedEmailNoLower(s) == trim(s)

\* line 25
sanitizedEmail(s) == trim(toLowerCase(s))

\* lines 27-34: the payload of prisma.waitlist.create
signupData(email, source, referrer) ==
  [email |-> sanitizedEmail(Val(email)),
   source |-> OrNull(source),
   referrer |-> OrNull(referrer)]

\* a catch block that handles P2002 and rethrows everything else
signupReturnRethrow(res) ==
  IF res.status = "ok" THEN Ok("You're on the list!")
  ELSE IF res.code = "P2002" THEN Err("You're already on the list!")
  ELSE Threw

\* lines 36-50: the value returned once create has settled
signupReturn(res) ==
  IF res.status = "ok" THEN Ok("You're on the list!")
  ELSE IF res.code = "P2002" THEN Err("You're already on the list!")
  ELSE Err("Something went wrong. Please try again.")

(***************************************************************************)
(* skills-claude/launchlist/src/app/actions.ts                             *)
(***************************************************************************)
\* lines 24-28: emailSchema.safeParse(email)
submitWaitlistValidate(email) ==
  IF IsNull(email) THEN Some(Err("Expected string, received null"))
  ELSE IF ~zodEmail(Val(email))
       THEN Some(Err("Please enter a valid email address"))
       ELSE Null

\* lines 30-37
submitWaitlistData(email, source, referrer) ==
  [email |-> trim(toLowerCase(Val(email))),
   source |-> OrNull(source),
   referrer |-> OrNull(referrer)]

\* lines 38-54
submitWaitlistReturn(res) ==
  IF res.status = "ok"
  THEN Ok("You're on the list! We'll be in touch soon.")
  ELSE IF res.known /\ res.code = "P2002"
       THEN Err("You're already on the waitlist!")
       ELSE Err("Something went wrong. Please try again.")

Validate(v, email) ==
  IF v = "vanilla" THEN signupValidate(email) ELSE submitWaitlistValidate(email)

CreateData(v, email, source, referrer) ==
  IF v = "vanilla" THEN signupData(email, source, referrer)
  ELSE submitWaitlistData(email, source, referrer)

Return(v, res) ==
  IF v = "vanilla" THEN signupReturn(res) ELSE submitWaitlistReturn(res)

(***************************************************************************)
(* The Waitlist table (model Waitlist: email String @unique).              *)
(***************************************************************************)
NoData == [email |-> << >>, source |-> Null, referrer |-> Null]

HasEmail(table, email) == \E i \in 1..Len(table) : table[i].email = email

\* @id @default(cuid()): an id that no row of the table has
NextId(table) ==
  IF table = << >> THEN 1
  ELSE 1 + CHOOSE m \in { table[i].id : i \in 1..Len(table) } :
             \A i \in 1..Len(table) : table[i].id <= m

NewRow(table, d, time) ==
  [id |-> NextId(table), email |-> d.email, source |-> d.source,
   referrer |-> d.referrer, createdAt |-> time]

\* a table without the unique index on email
prismaCreateNoUnique(table, d, time) ==
  [res |-> Created, table |-> Append(table, NewRow(table, d, time))]

\* an upsert: an existing row takes the new attribution
prismaUpsert(table, d, time) ==
  IF HasEmail(table, d.email)
  THEN [res |-> Created,
        table |-> [i \in 1..Len(table) |->
                     IF table[i].email = d.email
                     THEN [table[i] EXCEPT !.source = d.source,
                                           !.referrer = d.referrer]
                     ELSE table[i]]]
  ELSE [res |-> Created, table |-> Append(table, NewRow(table, d, time))]

\* a create that makes room for the new row by deleting the one in its way
prismaCreateReplace(table, d, time) ==
  LET kept == SelectSeq(table, LAMBDA row : row.email # d.email)
  IN [res |-> Created, table |-> Append(kept, NewRow(kept, d, time))]

\* prisma.waitlist.create while the database is reachable: the unique index
\* on email makes check and insert one atomic step.  Gives the outcome and
\* the table afterwards.
prismaCreate(table, d, time) ==
  IF HasEmail(table, d.email)
  THEN [res |-> UniqueViolation, table |-> table]
  ELSE [res |-> Created, table |-> Append(table, NewRow(table, d, time))]

\* prisma.waitlist.count()
count(table) == Len(table)

(***************************************************************************)
(* Analytics calls: values.                                                *)
(***************************************************************************)
Queries == {"total", "today", "thisWeek", "sources", "timeline"}

NoGot == [total |-> 0, today |-> 0, thisWeek |-> 0, sources |-> << >>,
          timeline |-> << >>]
NoDash == [pc |-> "idle", t0 |-> 0, pending |-> {}, got |-> NoGot]
NoReply == [op |-> "none", days |-> 0, value |-> NoGot, failed |-> FALSE,
            kind |-> "value"]

(***************************************************************************)
(* Admin Access Guard (admin-dashboard-expert skill): values.              *)
(* The clock of the web server counts units of 15 / WindowLen minutes.     *)
(***************************************************************************)
WindowLen == 2      \* clock units per 15 minutes
MaxFlight == 2
MaxSessions == 2    \* logins that succeed
MaxMoments == 2     \* how many single units the clock advances

LimitTokens == 5    \* Ratelimit.slidingWindow(5, '15 m')

Window == WindowLen
Hour == 4 * WindowLen

\* cookieOptions.maxAge: 60 * 60 * 24 seconds
maxAge == 24 * Hour

\* sessionOptions sets no ttl: iron-session seals with its default, 14 days
ttl == 14 * 24 * Hour

\* process.env.ADMIN_USERNAME, process.env.ADMIN_PASSWORD
ADMIN_USERNAME == "admin"
ADMIN_PASSWORD == "s3cret"

\* formData.get('username'), formData.get('password')
Usernames == { Some("admin"), Some("root") }
Passwords == { Some("s3cret"), Some("guess") }

\* headersList.get('x-forwarded-for')
ForwardedFor == { Some("203.0.113.7") }

\* headersList.get('x-forwarded-for') || 'unknown'
ClientIp(h) == IF IsNull(h) \/ Val(h) = "" THEN "unknown" ELSE Val(h)

Ips == { ClientIp(h) : h \in ForwardedFor }

Browsers == { "admin" }

Paths == { "/admin/login", "/admin/dashboard", "/admin" }

\* the calls that lie in the window that ends at time t
Recent(times, t) == SelectSeq(times, LAMBDA at : at > t - Window)

\* a limiter whose calls of one moment do not see one another: each reads
\* the count as it was before that moment, then writes its own entry
limitStaleRead(times, t) ==
  [success |-> Len(SelectSeq(Recent(times, t), LAMBDA at : at < t)) < LimitTokens,
   times |-> Append(Recent(times, t), t)]

\* a limiter that counts the calls it refuses as well
limitCountsRefused(times, t) ==
  [success |-> Len(Recent(times, t)) < LimitTokens,
   times |-> Append(Recent(times, t), t)]

\* loginLimiter.limit(ip): a sliding window of LimitTokens calls per Window;
\* a call that passes is counted, one that is refused is not
limit(times, t) ==
  IF Len(Recent(times, t)) < LimitTokens
  THEN [success |-> TRUE, times |-> Append(Recent(times, t), t)]
  ELSE [success |-> FALSE, times |-> Recent(times, t)]

\* SessionData of a request without a usable cookie: isLoggedIn is undefined
EmptySession == [isLoggedIn |-> FALSE, username |-> ""]

\* session.save(): the session data sealed with SESSION_SECRET at time t;
\* serial tells apart two seals of the same data (the seal is salted)
seal(serial, session, t) ==
  [serial |-> serial, isLoggedIn |-> session.isLoggedIn,
   username |-> session.username, sealedAt |-> t, intact |-> TRUE]

\* a sealed session whose bytes were changed, or one made without the secret
Tampered(token) == [token EXCEPT !.intact = FALSE]
Forged == [serial |-> 0, isLoggedIn |-> TRUE, username |-> ADMIN_USERNAME,
           sealedAt |-> 0, intact |-> FALSE]

\* getIronSession(cookies, sessionOptions): the data of the cookie when its
\* seal verifies and is no older than ttl, else an empty session
getIronSession(cookie, t) ==
  IF IsNull(cookie) THEN EmptySession
  ELSE IF Val(cookie).intact /\ t - Val(cookie).sealedAt <= ttl
       THEN [isLoggedIn |-> Val(cookie).isLoggedIn,
             username |-> Val(cookie).username]
       ELSE EmptySession

\* the Cookie header a browser sends at time t: it drops a cookie Max-Age
\* after it was set
cookieOf(entry, t) ==
  IF IsNull(entry) \/ t - Val(entry).setAt >= maxAge THEN Null
  ELSE Some(Val(entry).token)

\* a logout that leaves the cookie in place
sessionDestroyKeep(entry) == entry

\* session.destroy(): the cookie is cleared in the browser
sessionDestroy(entry) == Null

\* a login that compares the credentials before it looks at the limiter
loginCredentialsFirst(success, username, password) ==
  IF username = Some(ADMIN_USERNAME) /\ password = Some(ADMIN_PASSWORD)
  THEN [out |-> "session", error |-> "", to |-> "/admin/dashboard"]
  ELSE IF ~success
       THEN [out |-> "limited",
             error |-> "Too many attempts. Try again in 15 minutes.", to |-> ""]
       ELSE [out |-> "invalid", error |-> "Invalid credentials", to |-> ""]

\* a login that tells an unknown username from a wrong password
loginUserHint(success, username, password) ==
  IF ~success
  THEN [out |-> "limited",
        error |-> "Too many attempts. Try again in 15 minutes.", to |-> ""]
  ELSE IF username # Some(ADMIN_USERNAME)
       THEN [out |-> "invalid", error |-> "Unknown username", to |-> ""]
       ELSE IF password # Some(ADMIN_PASSWORD)
            THEN [out |-> "invalid", error |-> "Invalid credentials", to |-> ""]
            ELSE [out |-> "session", error |-> "", to |-> "/admin/dashboard"]

\* login, given what loginLimiter.limit(ip) answered: what it returns, or
\* where it redirects once the session is saved
login(success, username, password) ==
  IF ~success
  THEN [out |-> "limited",
        error |-> "Too many attempts. Try again in 15 minutes.", to |-> ""]
  ELSE IF username = Some(ADMIN_USERNAME) /\ password = Some(ADMIN_PASSWORD)
       THEN [out |-> "session", error |-> "", to |-> "/admin/dashboard"]
       ELSE [out |-> "invalid", error |-> "Invalid credentials", to |-> ""]

\* middleware: where a request to pathname goes, given the cookie it brings
middleware(pathname, cookie, t) ==
  IF pathname = "/admin/login" THEN "next"
  ELSE IF ~getIronSession(cookie, t).isLoggedIn THEN "redirect"
       ELSE "next"

NoResp ==
  [op |-> "none", browser |-> "", ip |-> "", username |-> Null,
   password |-> Null, out |-> "", error |-> "", to |-> "", set |-> Null,
   failedBefore |-> 0, pathname |-> "", cookie |-> Null, fromJar |-> FALSE,
   afterLogout |-> FALSE, destroyed |-> FALSE, queries |-> 0, age |-> 0]

NoVisit == [pc |-> "idle", req |-> NoResp]

\* the calls of login that can be in flight at a time
Slots == 1..MaxFlight

NoFlight == [pc |-> "idle", ip |-> "", username |-> Null, password |-> Null,
             at |-> 0]

InitGuard ==
  /\ clock = 0
  /\ hits = [ip \in Ips |-> << >>]
  /\ failures = [ip \in Ips |-> << >>]
  /\ flight = [s \in Slots |-> NoFlight]
  /\ passed = [ip \in Ips |-> << >>]
  /\ jar = [b \in Browsers |-> Null]
  /\ issued = {}
  /\ gone = {}
  /\ loggedOut = {}
  /\ visit = NoVisit
  /\ resp = NoResp

(***************************************************************************)
(* The public page: values.                                                *)
(***************************************************************************)
\* a revalidatePath("/") that is called on every path through the action
RevalidationsAlways(v, res) == IF v = "skills" THEN 1 ELSE 0

\* revalidatePath("/") is reached on the success path of submitWaitlist only;
\* signup calls nothing of the kind
Revalidations(v, res) == IF v = "skills" /\ res.status = "ok" THEN 1 ELSE 0

\* what a page shows where its counter is: nothing yet, a count, or the
\* error boundary
NotShown == [state |-> "none", n |-> 0]
ShowCount(n) == [state |-> "count", n |-> n]
ShowError == [state |-> "error", n |-> 0]

InitPage ==
  /\ status = [r \in Requests |-> "idle"]
  /\ shown = [r \in Requests |-> NotShown]
  /\ fetch = [r \in Requests |-> 0]
  /\ refreshed = [r \in Requests |-> 0]
  /\ calls = {}
  /\ answers = << >>

(***************************************************************************)
(* Signup Writer: actions.                                                 *)
(***************************************************************************)
Done == { r \in Requests : pc[r] = "done" }

Init ==
  /\ variant \in {"vanilla", "skills"}
  /\ store = << >>
  /\ now = 0
  /\ pc = [r \in Requests |-> "idle"]
  /\ inEmail = [r \in Requests |-> Null]
  /\ data = [r \in Requests |-> NoData]
  /\ dbRes = [r \in Requests |-> NoCall]
  /\ result = [r \in Requests |-> Pending]
  /\ doneAtBegin = [r \in Requests |-> {}]
  /\ dash = NoDash
  /\ reply = NoReply
  /\ InitGuard
  /\ InitPage

\* The action is invoked and runs up to its first await: it validates and
\* either returns the validation error or issues prisma.waitlist.create.
Call(r, email, source, referrer) ==
  LET bad == Validate(variant, email) IN
  /\ inEmail' = [inEmail EXCEPT ![r] = email]
  /\ doneAtBegin' = [doneAtBegin EXCEPT ![r] = Done]
  /\ IF ~IsNull(bad)
     THEN /\ result' = [result EXCEPT ![r] = Val(bad)]
          /\ pc' = [pc EXCEPT ![r] = "done"]
          /\ data' = data
     ELSE /\ data' = [data EXCEPT ![r] =
                        CreateData(variant, email, source, referrer)]
          /\ pc' = [pc EXCEPT ![r] = "creating"]
          /\ result' = result

\* the action is invoked with any form data
Submit(r) ==
  /\ pc[r] = "idle"
  /\ \E email \in EmailInputs, attr \in AttributionInputs :
       Call(r, email, attr[1], attr[2])
  /\ UNCHANGED << variant, store, now, dbRes, dash, reply, guard, page >>

\* The database executes the insert and the action resumes after the await;
\* submitWaitlist then calls revalidatePath("/") before it returns success.
CreateSettles(r) ==
  /\ pc[r] = "creating"
  /\ LET out == prismaCreate(store, data[r], now) IN
     /\ store' = out.table
     /\ dbRes' = [dbRes EXCEPT ![r] = out.res]
     /\ result' = [result EXCEPT ![r] = Return(variant, out.res)]
     /\ refreshed' = [refreshed EXCEPT ![r] = @ + Revalidations(variant, out.res)]
  /\ pc' = [pc EXCEPT ![r] = "done"]
  /\ UNCHANGED << variant, now, inEmail, data, doneAtBegin, dash, reply, guard,
                  status, shown, fetch,
                  calls, answers >>

\* The database is unreachable or fails otherwise: create rejects, nothing
\* is written, and the catch block of the action runs.
CreateFails(r) ==
  /\ pc[r] = "creating"
  /\ \E e \in OtherFailures :
       /\ dbRes' = [dbRes EXCEPT ![r] = e]
       /\ result' = [result EXCEPT ![r] = Return(variant, e)]
       /\ refreshed' = [refreshed EXCEPT ![r] = @ + Revalidations(variant, e)]
  /\ pc' = [pc EXCEPT ![r] = "done"]
  /\ UNCHANGED << variant, store, now, inEmail, data, doneAtBegin, dash, reply,
                  guard, status, shown, fetch,
                  calls, answers >>

Next == \E r \in Requests : Submit(r) \/ CreateSettles(r) \/ CreateFails(r)

Spec == Init /\ [][Next]_vars

\* The database commits the insert, but the connection breaks before the
\* answer arrives: create rejects with an error that is not P2002 although
\* the row is written, and the catch block of the action runs.  (A P2002 is
\* an answer of the database; it is not lost this way.)
CreateLost(r) ==
  /\ pc[r] = "creating"
  /\ prismaCreate(store, data[r], now).res = Created
  /\ store' = prismaCreate(store, data[r], now).table
  /\ \E e \in OtherFailures :
       /\ dbRes' = [dbRes EXCEPT ![r] = e]
       /\ result' = [result EXCEPT ![r] = Return(variant, e)]
       /\ refreshed' = [refreshed EXCEPT ![r] = @ + Revalidations(variant, e)]
  /\ pc' = [pc EXCEPT ![r] = "done"]
  /\ UNCHANGED << variant, now, inEmail, data, doneAtBegin, dash, reply, guard,
                  status, shown, fetch,
                  calls, answers >>

NextRetry ==
  \E r \in Requests :
    Submit(r) \/ CreateSettles(r) \/ CreateFails(r) \/ CreateLost(r)

SpecRetry == Init /\ [][NextRetry]_vars

(***************************************************************************)
(* The Server Action of the nextjs-app-router skill (app/actions.ts of its *)
(* section 4): it looks the address up with findUnique and calls create    *)
(* when it found none.  Each await is a step of its own.                   *)
(***************************************************************************)
ExampleEmails ==
  { Null, Some(<< "a", "b", ".", "c", "o" >>), Some(Addr("a")), Some(Addr("b")) }

ExampleSources == { Null, Some("tw") }

\* emailSchema.safeParse(email)
exampleValidate(email) ==
  IF IsNull(email) THEN Some(Err("Expected string, received null"))
  ELSE IF ~zodEmail(Val(email))
       THEN Some(Err("Invalid email address"))
       ELSE Null

\* the payload of create: the address as it was parsed, and utm_source || null
exampleData(email, source) ==
  [email |-> Val(email), source |-> OrNull(source), referrer |-> Null]

\* prisma.waitlist.findUnique({ where: { email } })
findUnique(table, email) ==
  IF HasEmail(table, email)
  THEN Some(CHOOSE i \in 1..Len(table) : table[i].email = email)
  ELSE Null

\* what the action returns once create has settled: the catch block has one
\* message for every error
exampleReturn(res) ==
  IF res.status = "ok" THEN Ok("Successfully joined!")
  ELSE Err("Something went wrong. Please try again.")

InitExample ==
  /\ variant = "example"
  /\ store = << >>
  /\ now = 0
  /\ pc = [r \in Requests |-> "idle"]
  /\ inEmail = [r \in Requests |-> Null]
  /\ data = [r \in Requests |-> NoData]
  /\ dbRes = [r \in Requests |-> NoCall]
  /\ result = [r \in Requests |-> Pending]
  /\ doneAtBegin = [r \in Requests |-> {}]
  /\ dash = NoDash
  /\ reply = NoReply
  /\ InitGuard
  /\ InitPage

\* the action is invoked and runs up to its first await: it validates and
\* either returns the validation error or issues findUnique
ExampleSubmit(r) ==
  /\ pc[r] = "idle"
  /\ \E email \in ExampleEmails, source \in ExampleSources :
       LET bad == exampleValidate(email) IN
       /\ inEmail' = [inEmail EXCEPT ![r] = email]
       /\ doneAtBegin' = [doneAtBegin EXCEPT ![r] = Done]
       /\ IF ~IsNull(bad)
          THEN /\ result' = [result EXCEPT ![r] = Val(bad)]
               /\ pc' = [pc EXCEPT ![r] = "done"]
               /\ data' = data
          ELSE /\ data' = [data EXCEPT ![r] = exampleData(email, source)]
               /\ pc' = [pc EXCEPT ![r] = "finding"]
               /\ result' = result
  /\ UNCHANGED << variant, store, now, dbRes, dash, reply, guard, page >>

\* findUnique answers: with a row the action returns the duplicate message,
\* without one it issues create
FindSettles(r) ==
  /\ pc[r] = "finding"
  /\ IF ~IsNull(findUnique(store, data[r].email))
     THEN /\ result' = [result EXCEPT ![r] =
                          Err("You're already on the waitlist!")]
          /\ pc' = [pc EXCEPT ![r] = "done"]
     ELSE /\ pc' = [pc EXCEPT ![r] = "creating"]
          /\ result' = result
  /\ UNCHANGED << variant, store, now, inEmail, data, dbRes, doneAtBegin, dash,
                  reply, guard, page >>

\* findUnique rejects: the catch block runs
FindFails(r) ==
  /\ pc[r] = "finding"
  /\ \E e \in OtherFailures :
       /\ dbRes' = [dbRes EXCEPT ![r] = e]
       /\ result' = [result EXCEPT ![r] = exampleReturn(e)]
  /\ pc' = [pc EXCEPT ![r] = "done"]
  /\ UNCHANGED << variant, store, now, inEmail, data, doneAtBegin, dash, reply,
                  guard, page >>

\* create settles; on success the action calls revalidatePath('/')
ExampleCreateSettles(r) ==
  /\ pc[r] = "creating"
  /\ LET out == prismaCreate(store, data[r], now) IN
     /\ store' = out.table
     /\ dbRes' = [dbRes EXCEPT ![r] = out.res]
     /\ result' = [result EXCEPT ![r] = exampleReturn(out.res)]
     /\ refreshed' = [refreshed EXCEPT ![r] =
                        @ + IF out.res.status = "ok" THEN 1 ELSE 0]
  /\ pc' = [pc EXCEPT ![r] = "done"]
  /\ UNCHANGED << variant, now, inEmail, data, doneAtBegin, dash, reply, guard,
                  status, shown, fetch,
                  calls, answers >>

\* create rejects because the database is unreachable or fails otherwise
ExampleCreateFails(r) ==
  /\ pc[r] = "creating"
  /\ \E e \in OtherFailures :
       /\ dbRes' = [dbRes EXCEPT ![r] = e]
       /\ result' = [result EXCEPT ![r] = exampleReturn(e)]
  /\ pc' = [pc EXCEPT ![r] = "done"]
  /\ UNCHANGED << variant, store, now, inEmail, data, doneAtBegin, dash, reply,
                  guard, page >>

NextExample ==
  \E r \in Requests :
    \/ ExampleSubmit(r)
    \/ FindSettles(r) \/ FindFails(r)
    \/ ExampleCreateSettles(r) \/ ExampleCreateFails(r)

SpecExample == InitExample /\ [][NextExample]_vars

(***************************************************************************)
(* Analytics Aggregator (admin-dashboard-expert skill, lib/analytics.ts).  *)
(* Time is counted in units of 1/DayLen day from the epoch, so a Date is   *)
(* an integer and its calendar date (toISOString().split('T')[0]) is the   *)
(* number of whole days it holds.                                          *)
(***************************************************************************)
DayLen == 2        \* clock units per day (24 * 60 * 60 * 1000 ms)
MaxTicks == 1      \* how far the clock advances
MaxSignups == 1    \* signups that arrive while the dashboard is in use

WeekDays == 7      \* "this week": Date.now() - 7 * 24 * 60 * 60 * 1000
DefaultDays == 30  \* getSignupsOverTime(30)
SourcesTake == 10  \* groupBy({ ..., take: 10 })

\* the admin opens the dashboard late on day 32
Now0 == 32 * DayLen + (DayLen - 1)

\* the calendar date of a Date
DateOf(t) == t \div DayLen

\* new Date(new Date().setHours(0, 0, 0, 0))
StartOfDay(t) == DateOf(t) * DayLen

\* prisma.waitlistSignup.count({ where: { createdAt: { gte: since } } })
countSince(table, since) ==
  Cardinality({ i \in 1..Len(table) : table[i].createdAt >= since })

\* signups.reduce(...) and Object.entries(grouped): one entry per date
\* present, in the order in which the dates first appear (the insertion
\* order of the keys of grouped), with the number of signups of that date
groupByDate(signups) ==
  LET dateAt(i) == DateOf(signups[i].createdAt)
      \* the positions at which a date appears for the first time
      firsts == { i \in 1..Len(signups) :
                    \A j \in 1..(i - 1) : dateAt(j) # dateAt(i) }
      kth(k) == CHOOSE i \in firsts :
                  Cardinality({ j \in firsts : j < i }) = k - 1
  IN [k \in 1..Cardinality(firsts) |->
        LET d == dateAt(kth(k)) IN
        [date |-> d,
         count |-> Cardinality({ i \in 1..Len(signups) : dateAt(i) = d })]]

\* the rows of the table are held in insertion order, which is the order of
\* createdAt (orderBy: { createdAt: 'asc' })
InWindow(table, since) ==
  SelectSeq(table, LAMBDA row : row.createdAt >= since)

getSignupsOverTime(table, time, days) ==
  groupByDate(InWindow(table, time - days * DayLen))

\* groupBy({ by: ['source'], _count: { id: true } }): one group per source
SourceGroups(table) ==
  { [source |-> s,
     count |-> Cardinality({ i \in 1..Len(table) : table[i].source = s })] :
    s \in { table[i].source : i \in 1..Len(table) } }

\* orderBy: { _count: { id: 'desc' } }: every order of the groups in which the
\* counts do not increase (the order of groups of equal count is up to the
\* database)
RECURSIVE OrdersDesc(_)
OrdersDesc(groups) ==
  IF groups = {} THEN { << >> }
  ELSE UNION { { << g >> \o rest : rest \in OrdersDesc(groups \ {g}) } :
               g \in { x \in groups : \A y \in groups : x.count >= y.count } }

\* take: n
Take(rows, n) == IF Len(rows) <= n THEN rows ELSE SubSeq(rows, 1, n)

\* a label that leaves the records without a source under the empty string
OrEmpty(o) == IF IsNull(o) THEN "" ELSE Val(o)

\* s.source || 'Direct'
OrDirect(o) == IF IsNull(o) \/ Val(o) = "" THEN "Direct" ELSE Val(o)

\* DashboardPage: referralData = stats.sources.map(...)
\* getSignupsBySource: stats.map(...)
Labelled(sources) ==
  [k \in 1..Len(sources) |->
     [source |-> OrDirect(sources[k].source), count |-> sources[k].count]]

(***************************************************************************)
(* Analytics Aggregator: actions.                                          *)
(***************************************************************************)
SourceNames ==
  << "twitter", "producthunt", "hackernews", "reddit", "linkedin", "facebook",
     "newsletter", "google", "youtube", "github", "discord", "mastodon" >>

\* The table when the admin opens the dashboard holds the signups of k
\* campaigns, the i-th campaign having brought i of them.
SeedSizes == {0, SourcesTake, SourcesTake + 1}

Rows(k) == (k * (k + 1)) \div 2

\* the campaign of the j-th signup
SeedCampaign(j) == CHOOSE i \in 1..Len(SourceNames) : Rows(i - 1) < j /\ j <= Rows(i)

\* age in days of the j-th of n signups: the first is 32 days old, the
\* others came during the last 20 days
SeedAgeDays(j, n) == IF j = 1 THEN 32 ELSE ((n - j) * 20) \div n

TrailingDays == {1, WeekDays, DefaultDays}

\* addresses never used before: "c@b.co", "cc@b.co", ... for the signups
\* already stored, "o@b.co", "oo@b.co", ... for those that arrive later
Repeat(c, n) == [i \in 1..n |-> c]

SeedEmail(i) == Repeat("c", i) \o << "@", "b", ".", "c", "o" >>
VisitorEmail(i) == Repeat("o", i) \o << "@", "b", ".", "c", "o" >>

Arrived(table) ==
  Cardinality({ i \in 1..Len(table) : table[i].email[1] = "o" })

\* the n signups stored before the admin opens the dashboard, as
\* submitWaitlist wrote them
SeedStore(n) ==
  [j \in 1..n |->
     LET d == CreateData("skills", Some(SeedEmail(j)),
                         Some(SourceNames[SeedCampaign(j)]), Null)
     IN [id |-> j, email |-> d.email, source |-> d.source,
         referrer |-> d.referrer,
         createdAt |-> Now0 - SeedAgeDays(j, n) * DayLen]]

InitDash ==
  /\ variant = "skills"
  /\ \E k \in SeedSizes : store = SeedStore(Rows(k))
  /\ now = Now0
  /\ pc = [r \in Requests |-> "idle"]
  /\ inEmail = [r \in Requests |-> Null]
  /\ data = [r \in Requests |-> NoData]
  /\ dbRes = [r \in Requests |-> NoCall]
  /\ result = [r \in Requests |-> Pending]
  /\ doneAtBegin = [r \in Requests |-> {}]
  /\ dash = NoDash
  /\ reply = NoReply
  /\ InitGuard
  /\ InitPage

\* the clock advances
Tick ==
  /\ now < Now0 + MaxTicks
  /\ now' = now + 1
  /\ UNCHANGED << variant, store, writer, dash, reply, guard, page >>

\* a visitor with a new address signs up: submitWaitlist runs to success
Signup ==
  /\ Arrived(store) < MaxSignups
  /\ \E attr \in AttributionInputs :
       store' = prismaCreate(store,
                  CreateData(variant, Some(VisitorEmail(Arrived(store) + 1)),
                             attr[1], attr[2]), now).table
  /\ UNCHANGED << variant, now, writer, dash, reply, guard, page >>

\* getDashboardStats is called: the arguments of its five queries, with the
\* time bounds, are built at once; the queries then run on their own
DashStart ==
  /\ dash.pc = "idle"
  /\ dash' = [pc |-> "running", t0 |-> now, pending |-> Queries, got |-> NoGot]
  /\ reply' = NoReply
  /\ UNCHANGED << variant, store, now, writer, guard, page >>

\* what query q of getDashboardStats reads from the table
QueryValues(q, table, t0) ==
  IF q = "total" THEN { count(table) }
  ELSE IF q = "today" THEN { countSince(table, StartOfDay(t0)) }
  ELSE IF q = "thisWeek" THEN { countSince(table, t0 - WeekDays * DayLen) }
  ELSE IF q = "sources"
       THEN { Take(rows, SourcesTake) : rows \in OrdersDesc(SourceGroups(table)) }
  ELSE { getSignupsOverTime(table, t0, DefaultDays) }

\* what DashboardPage holds once Promise.all has resolved
DashboardPage(got) ==
  [NoReply EXCEPT !.op = "DashboardPage", !.days = DefaultDays,
                  !.value = [got EXCEPT !.sources = Labelled(got.sources)]]

\* the database runs one of the five queries; with the last one Promise.all
\* resolves and the page has its data
DashQuery(q) ==
  /\ dash.pc = "running"
  /\ q \in dash.pending
  /\ \E v \in QueryValues(q, store, dash.t0) :
       LET got == [dash.got EXCEPT ![q] = v] IN
       IF dash.pending = {q}
       THEN /\ reply' = DashboardPage(got)
            /\ dash' = NoDash
       ELSE /\ dash' = [dash EXCEPT !.pending = @ \ {q}, !.got = got]
            /\ reply' = reply
  /\ UNCHANGED << variant, store, now, writer, guard, page >>

\* getSignupsOverTime(days) called on its own: one query
GetSignupsOverTime(days) ==
  /\ dash.pc = "idle"
  /\ reply' = [NoReply EXCEPT
                 !.op = "getSignupsOverTime", !.days = days,
                 !.value = [NoGot EXCEPT
                              !.timeline = getSignupsOverTime(store, now, days)]]
  /\ UNCHANGED << variant, store, now, writer, dash, guard, page >>

\* getSignupsBySource (prisma-postgresql-expert skill): one query, no take
getSignupsBySource(table) ==
  { Labelled(rows) : rows \in OrdersDesc(SourceGroups(table)) }

GetSignupsBySource ==
  /\ dash.pc = "idle"
  /\ \E rows \in getSignupsBySource(store) :
       reply' = [NoReply EXCEPT !.op = "getSignupsBySource",
                                !.value = [NoGot EXCEPT !.sources = rows]]
  /\ UNCHANGED << variant, store, now, writer, dash, guard, page >>

NextDash ==
  \/ Tick
  \/ Signup
  \/ DashStart
  \/ \E q \in Queries : DashQuery(q)
  \/ \E days \in TrailingDays : GetSignupsOverTime(days)
  \/ GetSignupsBySource

SpecDash == InitDash /\ [][NextDash]_vars

\* The table when the admin opens the dashboard: the signups of the
\* campaigns, and after them none or one of a visitor.
ReadStores ==
  { SeedStore(Rows(k)) : k \in SeedSizes }
    \cup { prismaCreate(SeedStore(Rows(k)),
                        CreateData("skills", Some(VisitorEmail(1)),
                                   attr[1], attr[2]), Now0).table :
           k \in SeedSizes, attr \in AttributionInputs }

InitReads ==
  /\ variant = "skills"
  /\ store \in ReadStores
  /\ now = Now0
  /\ pc = [r \in Requests |-> "idle"]
  /\ inEmail = [r \in Requests |-> Null]
  /\ data = [r \in Requests |-> NoData]
  /\ dbRes = [r \in Requests |-> NoCall]
  /\ result = [r \in Requests |-> Pending]
  /\ doneAtBegin = [r \in Requests |-> {}]
  /\ dash = NoDash
  /\ reply = NoReply
  /\ InitGuard
  /\ InitPage

\* the analytics calls on a table that nobody writes, at one moment
NextReads ==
  \/ DashStart
  \/ \E q \in Queries : DashQuery(q)
  \/ \E days \in TrailingDays : GetSignupsOverTime(days)
  \/ GetSignupsBySource

SpecReads == InitReads /\ [][NextReads]_vars

(***************************************************************************)
(* Admin Access Guard: actions.                                            *)
(***************************************************************************)
\* Time passes between two requests: one unit, the Max-Age of the cookie, or
\* the ttl of a seal.  The entries of the limiter that have left the window
\* expire.
Pass(d) ==
  /\ visit.pc = "idle"
  /\ d = 1 => (clock % maxAge) < MaxMoments
  /\ d = maxAge => clock < maxAge
  /\ d = ttl => clock < ttl
  /\ clock' = clock + d
  /\ hits' = [ip \in Ips |-> Recent(hits[ip], clock')]
  /\ failures' = [ip \in Ips |-> Recent(failures[ip], clock')]
  /\ resp' = NoResp
  /\ UNCHANGED << variant, store, now, writer, dash, reply, page, flight,
                  passed, jar, issued, gone, loggedOut, visit >>

\* The login form of browser b is submitted through a proxy that sets
\* x-forwarded-for to h.  The limiter is asked first; the session cookie is
\* set only when login reaches session.save().
Login(b, h, username, password) ==
  /\ LET ip == ClientIp(h)
         lim == limit(hits[ip], clock)
         ret == login(lim.success, username, password)
         token == seal(Cardinality(issued) + 1,
                       [isLoggedIn |-> TRUE, username |-> ADMIN_USERNAME], clock)
     IN /\ ret.out = "session" => Cardinality(issued) < MaxSessions
        /\ hits' = [hits EXCEPT ![ip] = lim.times]
        /\ failures' = [failures EXCEPT ![ip] =
                          IF ret.out = "invalid"
                          THEN Append(Recent(@, clock), clock)
                          ELSE Recent(@, clock)]
        /\ IF ret.out = "session"
           THEN /\ jar' = [jar EXCEPT ![b] =
                             Some([token |-> token, setAt |-> clock])]
                /\ issued' = issued \cup {token}
                /\ loggedOut' = loggedOut \ {b}
           ELSE UNCHANGED << jar, issued, loggedOut >>
        /\ resp' = [NoResp EXCEPT
                      !.op = "login", !.browser = b, !.ip = ip,
                      !.username = username, !.password = password,
                      !.out = ret.out, !.error = ret.error, !.to = ret.to,
                      !.set = IF ret.out = "session" THEN Some(token) ELSE Null,
                      !.failedBefore = Len(Recent(failures[ip], clock))]
  /\ UNCHANGED << variant, store, now, writer, dash, reply, page, clock,
                  flight, passed, gone, visit >>

\* The admin presses Logout in the sidebar of an /admin page: the request
\* passes the middleware, then logout runs.
Logout(b) ==
  /\ middleware("/admin/dashboard", cookieOf(jar[b], clock), clock) = "next"
  /\ jar' = [jar EXCEPT ![b] = sessionDestroy(@)]
  /\ gone' = gone \cup { Val(cookieOf(jar[b], clock)) }
  /\ loggedOut' = loggedOut \cup {b}
  /\ resp' = [NoResp EXCEPT !.op = "logout", !.browser = b,
                            !.out = "redirect", !.to = "/admin/login"]
  /\ UNCHANGED << variant, store, now, writer, dash, reply, page, clock,
                  hits, failures, flight, passed, issued, visit >>

\* a request to pathname carrying cookie reaches the middleware
Arrive(b, pathname, cookie, fromJar) ==
  /\ visit.pc = "idle"
  /\ LET way == middleware(pathname, cookie, clock)
         req == [NoResp EXCEPT
                   !.op = "request", !.browser = b, !.pathname = pathname,
                   !.cookie = cookie, !.fromJar = fromJar,
                   !.afterLogout = (b \in loggedOut),
                   !.destroyed = (~IsNull(cookie) /\ Val(cookie) \in gone),
                   !.out = way,
                   !.to = IF way = "redirect" THEN "/admin/login" ELSE "",
                   !.age = IF IsNull(cookie) THEN 0
                           ELSE clock - Val(cookie).sealedAt]
     IN /\ resp' = req
        /\ visit' = IF way = "next" THEN [pc |-> "passed", req |-> req]
                    ELSE NoVisit
  /\ UNCHANGED << variant, store, now, writer, dash, reply, page, clock,
                  hits, failures, flight, passed, jar, issued, gone,
                  loggedOut >>

\* browser b asks for an /admin path and sends the cookie it holds
BrowserRequest(b, pathname) ==
  Arrive(b, pathname, cookieOf(jar[b], clock), TRUE)

\* what a client that is no browser can put into its Cookie header: nothing,
\* a copy of a sealed session it has got hold of, or bytes of its own
Presentable ==
  { Null, Some(Forged) } \cup { Some(k) : k \in issued }
    \cup { Some(Tampered(k)) : k \in issued }

ClientRequest(pathname, cookie) ==
  /\ cookie \in Presentable
  /\ Arrive("", pathname, cookie, FALSE)

\* the page behind the middleware is rendered; DashboardPage calls
\* getDashboardStats, which runs the aggregation queries
Render ==
  /\ visit.pc = "passed"
  /\ resp' = [visit.req EXCEPT
                !.out = "page",
                !.queries = IF visit.req.pathname = "/admin/dashboard"
                            THEN Cardinality(Queries) ELSE 0]
  /\ visit' = NoVisit
  /\ UNCHANGED << variant, store, now, writer, dash, reply, page, clock,
                  hits, failures, flight, passed, jar, issued, gone,
                  loggedOut >>

InitAuth ==
  /\ variant = "skills"
  /\ store = << >>
  /\ now = 0
  /\ pc = [r \in Requests |-> "idle"]
  /\ inEmail = [r \in Requests |-> Null]
  /\ data = [r \in Requests |-> NoData]
  /\ dbRes = [r \in Requests |-> NoCall]
  /\ result = [r \in Requests |-> Pending]
  /\ doneAtBegin = [r \in Requests |-> {}]
  /\ dash = NoDash
  /\ reply = NoReply
  /\ InitGuard
  /\ InitPage

\* logins, right and wrong, within a few moments
NextLogin ==
  \/ Pass(1)
  \/ \E b \in Browsers, h \in ForwardedFor, u \in Usernames, p \in Passwords :
       Login(b, h, u, p)

SpecLogin == InitAuth /\ [][NextLogin]_vars

\* the life of the sessions of an admin who knows the credentials
NextSession ==
  \/ \E d \in {1, maxAge, ttl} : Pass(d)
  \/ \E b \in Browsers, h \in ForwardedFor :
       Login(b, h, Some(ADMIN_USERNAME), Some(ADMIN_PASSWORD))
  \/ \E b \in Browsers : Logout(b)
  \/ \E b \in Browsers, pathname \in Paths : BrowserRequest(b, pathname)
  \/ \E pathname \in Paths, cookie \in Presentable :
       ClientRequest(pathname, cookie)
  \/ Render

SpecSession == InitAuth /\ [][NextSession]_vars

(***************************************************************************)
(* The public page: the counter and the signup form.  One page is         *)
(* followed, with its form and its counter; the other requests are sent    *)
(* by visitors whose pages are not followed.  The page of the skills       *)
(* variant is built from components/SignupForm.tsx and                     *)
(* components/Counter.tsx of bettercode-claude, which call submitWaitlist. *)
(***************************************************************************)
\* the request that the form of the followed page sends
Pages == { CHOOSE r \in Requests : TRUE }

MaxFetch == 1       \* calls of refreshCount the interval timer keeps in flight

\* what is typed into the email field
TypedEmails == { << >>, << "a", "b", ".", "c", "o" >>, Addr("a") }

\* (utm_source of the URL, document.referrer) of the page
PageAttributions == { << Null, Null >>, << Some("tw"), Some("ref") >> }

\* prisma.waitlist.count(): the number of rows, or a rejection when the
\* database is unreachable
prismaCount(table) ==
  { [failed |-> FALSE, n |-> count(table)], [failed |-> TRUE, n |-> 0] }

\* getWaitlistCount: what it returns for the outcome q of the query
getWaitlistCount(q) ==
  [NoReply EXCEPT !.op = "getWaitlistCount", !.failed = q.failed,
                  !.kind = "value",
                  !.value = [NoGot EXCEPT !.total = IF q.failed THEN 0 ELSE q.n]]

\* GET /api/count: the body of its response
GET(q) ==
  [NoReply EXCEPT !.op = "GET /api/count", !.failed = q.failed,
                  !.kind = "value",
                  !.value = [NoGot EXCEPT !.total = IF q.failed THEN 0 ELSE q.n]]

\* Counter (server component): the query is awaited without a catch
Counter(q) ==
  [NoReply EXCEPT !.op = "Counter", !.failed = q.failed,
                  !.kind = IF q.failed THEN "error" ELSE "value",
                  !.value = [NoGot EXCEPT !.total = q.n]]

\* if (source) formData.append("source", source)
Appended(o) == IF IsNull(o) \/ Val(o) = "" THEN Null ELSE o

\* handleSubmit after the await: the calls of onSuccess
onSuccess(v, res) == IF v = "vanilla" /\ res.success THEN 1 ELSE 0

\* the page is rendered on the server with the count of that moment
PageLoad(r) ==
  /\ shown[r].state = "none"
  /\ \E q \in prismaCount(store) :
       LET got == IF variant = "vanilla" THEN getWaitlistCount(q)
                  ELSE Counter(q)
       IN /\ reply' = got
          /\ shown' = [shown EXCEPT ![r] =
                         IF got.kind = "error" THEN ShowError
                         ELSE ShowCount(got.value.total)]
  /\ UNCHANGED << variant, store, now, writer, dash, guard, status, fetch,
                  refreshed, calls,
                  answers >>

\* The form is submitted.  vanilla: handleSubmit up to its await of signup;
\* skills: the form action, with the hidden fields utm_source and referrer.
FormSubmit(r) ==
  /\ shown[r].state # "none"
  /\ status[r] = "idle"
  /\ pc[r] = "idle"
  /\ \E email \in TypedEmails, attr \in PageAttributions :
       IF variant = "vanilla" /\ email = << >>
       THEN UNCHANGED << writer, status >>
       ELSE /\ status' = [status EXCEPT ![r] = "loading"]
            /\ IF variant = "vanilla"
               THEN Call(r, Some(email), Appended(attr[1]), Appended(attr[2]))
               ELSE Call(r, Some(email), Some(""), Some(""))
            /\ dbRes' = dbRes
  /\ UNCHANGED << variant, store, now, dash, reply, guard, shown, fetch,
                  refreshed, calls,
                  answers >>

\* The call has returned and the form goes on.  vanilla: handleSubmit after
\* the await; on success onSuccess runs handleSuccess, which calls
\* refreshWaitlistCount.  skills: useActionState takes the new state.
Resolve(r) ==
  /\ status[r] = "loading"
  /\ pc[r] = "done"
  /\ status' = [status EXCEPT ![r] =
                  IF result[r].success THEN "success" ELSE "error"]
  /\ fetch' = [fetch EXCEPT ![r] = @ + onSuccess(variant, result[r])]
  /\ refreshed' = [refreshed EXCEPT ![r] = @ + onSuccess(variant, result[r])]
  /\ UNCHANGED << variant, store, now, writer, dash, reply, guard, shown,
                  calls, answers >>

\* the timer of Counter fires: refreshCount is called
IntervalRefresh(r) ==
  /\ variant = "vanilla"
  /\ shown[r].state # "none"
  /\ fetch[r] < MaxFetch
  /\ fetch' = [fetch EXCEPT ![r] = @ + 1]
  /\ UNCHANGED << variant, store, now, writer, dash, reply, guard, status,
                  shown, refreshed, calls,
                  answers >>

\* GET /api/count answers a call of refreshCount, which sets the count
CountFetched(r) ==
  /\ fetch[r] > 0
  /\ \E q \in prismaCount(store) :
       /\ reply' = GET(q)
       /\ shown' = [shown EXCEPT ![r] = ShowCount(GET(q).value.total)]
  /\ fetch' = [fetch EXCEPT ![r] = @ - 1]
  /\ UNCHANGED << variant, store, now, writer, dash, guard, status, refreshed, calls,
                  answers >>

\* the request of refreshCount fails, or its response is not ok: the count
\* stays
FetchFailed(r) ==
  /\ fetch[r] > 0
  /\ fetch' = [fetch EXCEPT ![r] = @ - 1]
  /\ UNCHANGED << variant, store, now, writer, dash, reply, guard, status,
                  shown, refreshed, calls,
                  answers >>

\* a visitor whose page is not followed submits the form
OtherSubmit(r) ==
  /\ pc[r] = "idle"
  /\ Call(r, Some(Addr("a")), Some(""), Some(""))
  /\ UNCHANGED << variant, store, now, dbRes, dash, reply, guard, page >>

NextPage ==
  \/ \E r \in Pages :
       \/ PageLoad(r)
       \/ FormSubmit(r)
       \/ Resolve(r)
       \/ IntervalRefresh(r)
       \/ CountFetched(r)
       \/ FetchFailed(r)
  \/ \E r \in Requests \ Pages : OtherSubmit(r)
  \/ \E r \in Requests : CreateSettles(r) \/ CreateFails(r)

SpecPage == Init /\ [][NextPage]_vars

(***************************************************************************)
(* The vanilla client (Counter and SignupForm of the followed page) with   *)
(* its awaits as steps of their own: a call of signup is sent, runs on the *)
(* server, and handleSubmit resumes when it returns; a fetch of /api/count *)
(* is sent, is answered by the route, and the answer is delivered to       *)
(* refreshCount.  The form can be submitted again once a call has          *)
(* returned; every request is a call of the form or of another visitor.    *)
(***************************************************************************)
\* an input and a button that stay enabled while the form is loading
disabledNever(st) == FALSE

\* disabled={status === "loading"} of the input and of the submit button
disabled(st) == st = "loading"

\* times with t put in its place
Insert(times, t) ==
  SelectSeq(times, LAMBDA at : at <= t) \o << t >>
    \o SelectSeq(times, LAMBDA at : at > t)

\* times without its i-th entry
Without(times, i) ==
  SubSeq(times, 1, i - 1) \o SubSeq(times, i + 1, Len(times))

InitClient == Init /\ variant = "vanilla"

\* The form is submitted: handleSubmit up to its await of signup.  With an
\* empty email it returns at once.
HandleSubmit(f, r) ==
  /\ shown[f].state # "none"
  /\ ~disabled(status[f])
  /\ pc[r] = "idle"
  /\ \E email \in TypedEmails, attr \in PageAttributions :
       IF email = << >>
       THEN UNCHANGED << writer, status, calls >>
       ELSE /\ status' = [status EXCEPT ![f] = "loading"]
            /\ Call(r, Some(email), Appended(attr[1]), Appended(attr[2]))
            /\ dbRes' = dbRes
            /\ calls' = calls \cup {r}
  /\ UNCHANGED << variant, store, now, dash, reply, guard, shown, fetch,
                  refreshed, answers >>

\* signup has returned and handleSubmit resumes after its await; on success
\* onSuccess runs handleSuccess, which calls refreshWaitlistCount
Resumes(f, r) ==
  /\ r \in calls
  /\ pc[r] = "done"
  /\ status' = [status EXCEPT ![f] =
                  IF result[r].success THEN "success" ELSE "error"]
  /\ fetch' = [fetch EXCEPT ![f] = @ + onSuccess(variant, result[r])]
  /\ refreshed' = [refreshed EXCEPT ![r] = @ + onSuccess(variant, result[r])]
  /\ calls' = calls \ {r}
  /\ UNCHANGED << variant, store, now, writer, dash, reply, guard, shown,
                  answers >>

\* The call of the server action rejects (the request does not get through,
\* or the response is no result): the await in handleSubmit throws, and
\* nothing after it runs.  What the server does with the request is its own
\* matter.
Rejects(r) ==
  /\ r \in calls
  /\ calls' = calls \ {r}
  /\ UNCHANGED << variant, store, now, writer, dash, reply, guard, status,
                  shown, fetch, refreshed, answers >>

\* the timer of Counter fires while fewer than MaxFetch of its fetches are
\* under way
TimerFires(f) ==
  /\ fetch[f] + Len(answers) < MaxFetch
  /\ IntervalRefresh(f)

\* the route GET /api/count handles a fetch of refreshCount; its answer is
\* on the way
CountAnswered(f) ==
  /\ fetch[f] > 0
  /\ \E q \in prismaCount(store) :
       /\ reply' = GET(q)
       /\ answers' = Insert(answers, GET(q).value.total)
  /\ fetch' = [fetch EXCEPT ![f] = @ - 1]
  /\ UNCHANGED << variant, store, now, writer, dash, guard, status, shown,
                  refreshed, calls >>

\* an answer arrives (response.ok): refreshCount sets the count
CountDelivered(f, i) ==
  /\ i \in 1..Len(answers)
  /\ shown' = [shown EXCEPT ![f] = ShowCount(answers[i])]
  /\ answers' = Without(answers, i)
  /\ UNCHANGED << variant, store, now, writer, dash, reply, guard, status,
                  fetch, refreshed, calls >>

NextClient ==
  \/ \E f \in Pages :
       \/ PageLoad(f)
       \/ \E r \in Requests : HandleSubmit(f, r) \/ Resumes(f, r)
       \/ TimerFires(f)
       \/ CountAnswered(f)
       \/ FetchFailed(f)
       \/ \E i \in 1..Len(answers) : CountDelivered(f, i)
  \/ \E r \in Requests :
       OtherSubmit(r) \/ CreateSettles(r) \/ CreateFails(r) \/ Rejects(r)

SpecClient == InitClient /\ [][NextClient]_vars

\* The server answers every call it has got, and handleSubmit resumes when
\* its call has returned; nothing makes a call that rejects return.
SpecClientFair ==
  /\ SpecClient
  /\ WF_vars(\E r \in Requests : CreateSettles(r) \/ CreateFails(r))
  /\ WF_vars(\E f \in Pages, r \in Requests : Resumes(f, r))

(***************************************************************************)
(* The maintenance functions of the prisma-postgresql-expert skill, which  *)
(* work on a table whose rows have a status (SignupStatus, @default        *)
(* PENDING) and an invitedAt.                                              *)
(***************************************************************************)
\* the status an operator sets by hand (the one that stamps invitedAt)
NewStatuses == { "INVITED" }

\* the status column of a row: PENDING until it has been set
StatusOf(row) == IF "status" \in DOMAIN row THEN row.status ELSE "PENDING"

InvitedAtOf(row) == IF "invitedAt" \in DOMAIN row THEN row.invitedAt ELSE Null

\* the row with its status and invitedAt columns written (undefined leaves
\* invitedAt as it is)
WithStatus(row, st, invitedAt) ==
  [id |-> row.id, email |-> row.email, source |-> row.source,
   referrer |-> row.referrer, createdAt |-> row.createdAt,
   status |-> st, invitedAt |-> invitedAt]

IdsOf(table) == { table[i].id : i \in 1..Len(table) }

\* prisma.waitlistSignup.update({ where: { id }, data: { status, invitedAt } })
updateSignupStatus(table, id, st, time) ==
  [i \in 1..Len(table) |->
     IF table[i].id = id
     THEN WithStatus(table[i], st,
                     IF st = "INVITED" THEN Some(time)
                     ELSE InvitedAtOf(table[i]))
     ELSE table[i]]

\* prisma.waitlistSignup.updateMany({ where: { id: { in: ids }, status:
\* 'PENDING' }, data: { status: 'APPROVED' } })
approveSignups(table, ids) ==
  [i \in 1..Len(table) |->
     IF table[i].id \in ids /\ StatusOf(table[i]) = "PENDING"
     THEN WithStatus(table[i], "APPROVED", InvitedAtOf(table[i]))
     ELSE table[i]]

\* prisma.waitlistSignup.update({ where: { id }, data: { status: 'REJECTED' } })
softDeleteSignup(table, id) ==
  [i \in 1..Len(table) |->
     IF table[i].id = id
     THEN WithStatus(table[i], "REJECTED", InvitedAtOf(table[i]))
     ELSE table[i]]

\* prisma.waitlistSignup.delete({ where: { email } })
deleteSignup(table, email) ==
  SelectSeq(table, LAMBDA row : row.email # email)

\* the addresses that visitors submit while the table is maintained
MaintainedEmails == { Some(Addr("a")), Some(Addr("b")) }

\* a visitor submits one of these addresses
SubmitAddress(r) ==
  /\ pc[r] = "idle"
  /\ \E email \in MaintainedEmails : Call(r, email, Some(""), Some(""))
  /\ UNCHANGED << variant, store, now, dbRes, dash, reply, guard, page >>

\* update and delete reject when no row matches (P2025) and write nothing
UpdateSignupStatus(id, st) ==
  /\ id \in IdsOf(store)
  /\ store' = updateSignupStatus(store, id, st, now)
  /\ reply' = [NoReply EXCEPT !.op = "updateSignupStatus"]
  /\ UNCHANGED << variant, now, writer, dash, guard, page >>

ApproveSignups(ids) ==
  /\ store' = approveSignups(store, ids)
  /\ reply' = [NoReply EXCEPT !.op = "approveSignups"]
  /\ UNCHANGED << variant, now, writer, dash, guard, page >>

SoftDeleteSignup(id) ==
  /\ id \in IdsOf(store)
  /\ store' = softDeleteSignup(store, id)
  /\ reply' = [NoReply EXCEPT !.op = "softDeleteSignup"]
  /\ UNCHANGED << variant, now, writer, dash, guard, page >>

DeleteSignup(email) ==
  /\ HasEmail(store, email)
  /\ store' = deleteSignup(store, email)
  /\ reply' = [NoReply EXCEPT !.op = "deleteSignup"]
  /\ UNCHANGED << variant, now, writer, dash, guard, page >>

NextOps ==
  \/ \E r \in Requests : SubmitAddress(r) \/ CreateSettles(r) \/ CreateFails(r)
  \/ \E id \in IdsOf(store), st \in NewStatuses : UpdateSignupStatus(id, st)
  \/ \E ids \in SUBSET IdsOf(store) : ApproveSignups(ids)
  \/ \E id \in IdsOf(store) : SoftDeleteSignup(id)
  \/ \E i \in 1..Len(store) : DeleteSignup(store[i].email)

SpecOps == Init /\ [][NextOps]_vars

(***************************************************************************)
(* Vocabulary of the properties.                                           *)
(***************************************************************************)
\* normalization of an address: lower-cased, surrounding blanks removed
Normalized(s) == trim(toLowerCase(s))

\* local@domain.tld without white space: one "@", something before it and
\* a "." with something on both sides after it
WellFormed(s) ==
  /\ Cardinality({ i \in 1..Len(s) : s[i] = "@" }) = 1
  /\ \A i \in 1..Len(s) : ~IsSpace(s[i])
  /\ \E i \in 2..Len(s) :
       /\ s[i] = "@"
       /\ \E j \in (i + 2)..(Len(s) - 1) : s[j] = "."

\* the address is one the deployed action accepts as it stands
Valid(s) == IsNull(Validate(variant, Some(s)))

IsSuccess(res) == res.kind = "value" /\ res.success

IsInvalidEmail(res) ==
  /\ res.kind = "value"
  /\ ~res.success
  /\ res.text \in {"Email is required", "Please enter a valid email address",
                   "Expected string, received null"}

IsDuplicate(res) ==
  /\ res.kind = "value"
  /\ ~res.success
  /\ res.text \in {"You're already on the list!",
                   "You're already on the waitlist!"}

IsTransient(res) ==
  /\ res.kind = "value"
  /\ ~res.success
  /\ res.text = "Something went wrong. Please try again."

Begun == { r \in Requests : pc[r] # "idle" }

\* request r was given an address, and it normalizes to e
Submits(r, e) ==
  /\ r \in Begun
  /\ ~IsNull(inEmail[r])
  /\ Normalized(Val(inEmail[r])) = e

\* r2 was invoked after r1 had returned
Before(r1, r2) == r1 \in doneAtBegin[r2]

\* r is the first submission of its address: every other submission of an
\* address of the same normalization class was invoked after r had returned
FirstOfClass(r) ==
  \A o \in Begun \ {r} :
    Submits(o, Normalized(Val(inEmail[r]))) => Before(r, o)

Reachable(r) == dbRes[r] \notin OtherFailures

RowsFor(e) == { i \in 1..Len(store) : Normalized(store[i].email) = e }

\* C1 (as claimed): for a valid address e, two submissions one after the
\* other of inputs that normalize to e return success and then Duplicate,
\* and exactly one row for e exists afterwards (the database being reachable).
C1_TwiceSuccessThenDuplicate ==
  \A r1, r2 \in Done :
    ( /\ ~IsNull(inEmail[r1])
      /\ Valid(Normalized(Val(inEmail[r1])))
      /\ Submits(r2, Normalized(Val(inEmail[r1])))
      /\ Before(r1, r2)
      /\ FirstOfClass(r1)
      /\ Reachable(r1) /\ Reachable(r2) )
    => /\ IsSuccess(result[r1])
       /\ IsDuplicate(result[r2])
       /\ Cardinality(RowsFor(Normalized(Val(inEmail[r1])))) = 1

\* the requests that submitted exactly the normalized address e
Identical(e) == { r \in Begun : inEmail[r] = Some(e) }

\* C2: when N >= 1 requests submit the identical normalized valid address
\* concurrently (none was invoked after another had returned), nobody else
\* writes that address and the database stays reachable, exactly one of them
\* returns success and the other N - 1 return Duplicate.
C2_ExactlyOneSucceeds ==
  \A x \in EmailInputs \ {Null} :
    LET e == Val(x)
        S == Identical(e)
    IN ( /\ S # {}
         /\ Normalized(e) = e /\ Valid(e)
         /\ S \subseteq Done
         /\ \A r1, r2 \in S : ~Before(r1, r2)
         /\ \A r \in S : Reachable(r)
         /\ \A o \in Requests \ S : data[o].email # e )
       => /\ Cardinality({ r \in S : IsSuccess(result[r]) }) = 1
          /\ Cardinality({ r \in S : IsDuplicate(result[r]) })
               = Cardinality(S) - 1

\* two concurrent submissions of "a@b.co": one succeeded, one was a duplicate
C2_Witness ==
  \E r1, r2 \in Done :
    /\ r1 # r2
    /\ inEmail[r1] = Some(Addr("a")) /\ inEmail[r2] = Some(Addr("a"))
    /\ ~Before(r1, r2) /\ ~Before(r2, r1)
    /\ IsSuccess(result[r1]) /\ IsDuplicate(result[r2])

\* C3: the table never holds two rows for one normalized address, and every
\* stored address is in normalized form.
C3_UniqueNormalizedEmails ==
  /\ \A i, j \in 1..Len(store) :
       Normalized(store[i].email) = Normalized(store[j].email) => i = j
  /\ \A i \in 1..Len(store) : Normalized(store[i].email) = store[i].email

\* two rows, one of them written for the input "A@b.co"
C3_Witness ==
  /\ Len(store) = 2
  /\ \E r \in Done : inEmail[r] = Some(Addr("A")) /\ IsSuccess(result[r])

\* C4 (as claimed): of two inputs that differ only in letter case or in
\* surrounding white space, the one submitted second, after the first
\* succeeded, returns Duplicate, and the stored value is their common
\* normalization.
C4_VariantsAreDuplicates ==
  \A r1, r2 \in Done :
    ( /\ ~IsNull(inEmail[r1])
      /\ Submits(r2, Normalized(Val(inEmail[r1])))
      /\ Before(r1, r2)
      /\ IsSuccess(result[r1])
      /\ Reachable(r2) )
    => /\ IsDuplicate(result[r2])
       /\ HasEmail(store, Normalized(Val(inEmail[r2])))

\* the input has white space around an address
Padded(s) == trim(s) # s /\ WellFormed(trim(s))

\* C5 (as claimed): an input that is a valid address with surrounding white
\* space is normalized before it is validated: submitted first for its
\* address, with the database reachable, it is accepted and the normalized
\* address is stored.
C5_NormalizeBeforeValidate ==
  \A r \in Done :
    ( /\ ~IsNull(inEmail[r])
      /\ Padded(Val(inEmail[r]))
      /\ Valid(Normalized(Val(inEmail[r])))
      /\ FirstOfClass(r)
      /\ doneAtBegin[r] = {}
      /\ Reachable(r) )
    => /\ IsSuccess(result[r])
       /\ HasEmail(store, Normalized(Val(inEmail[r])))
       /\ count(store) >= 1

\* the input is missing, empty or, even with its surrounding white space
\* removed, no address
Malformed(x) == IsNull(x) \/ Val(x) = << >> \/ ~WellFormed(Normalized(Val(x)))

\* C6: a missing, empty or malformed input returns InvalidEmail, and
\* prisma.waitlist.create is never called for it.
C6_MalformedRejected ==
  \A r \in Done :
    Malformed(inEmail[r])
    => /\ IsInvalidEmail(result[r])
       /\ dbRes[r] = NoCall
       /\ data[r] = NoData

\* "ab.co" and a missing field were both rejected
C6_Witness ==
  \E r1, r2 \in Done :
    /\ inEmail[r1] = Some(<< "a", "b", ".", "c", "o" >>)
    /\ inEmail[r2] = Null
    /\ IsInvalidEmail(result[r1]) /\ IsInvalidEmail(result[r2])
    /\ store = << >>

Returns(r) == pc[r] # "done" /\ pc'[r] = "done"

\* A request that returns success has appended exactly one row, holding
\* what it submitted, and left every other row as it was; a request that
\* returns an error leaves the table, with the attribution of the rows in
\* it, unchanged; and the table changes in no other step.
C7_Step ==
  /\ \A r \in Requests :
       Returns(r) =>
         IF IsSuccess(result'[r])
         THEN /\ count(store') = count(store) + 1
              /\ SubSeq(store', 1, Len(store)) = store
              /\ store'[Len(store')].email = data[r].email
              /\ store'[Len(store')].source = data[r].source
              /\ store'[Len(store')].referrer = data[r].referrer
         ELSE store' = store
  /\ (\A r \in Requests : ~Returns(r)) => store' = store

C8_FailuresAreReturned ==
  \A r \in Done :
    /\ result[r].kind = "value"
    /\ dbRes[r] = UniqueViolation => IsDuplicate(result[r])
    /\ dbRes[r] \in OtherFailures => IsTransient(result[r])

\* both kinds of failure other than the unique constraint were met, by
\* requests that had passed validation, and both came back as Transient
C8_Witness ==
  \E r1, r2 \in Done :
    /\ dbRes[r1] \in OtherFailures /\ dbRes[r1].known
    /\ dbRes[r2] \in OtherFailures /\ ~dbRes[r2].known
    /\ IsTransient(result[r1]) /\ IsTransient(result[r2])
    /\ store = << >>

RECURSIVE SumCounts(_)
SumCounts(entries) ==
  IF entries = << >> THEN 0
  ELSE Head(entries).count + SumCounts(Tail(entries))

\* C9 (as claimed): the timeline of a call for n days has exactly n entries,
\* one for each day of the window in ascending order without a gap, a day
\* without signups having count 0.
C9_TimelineHasEveryDay ==
  reply.op \in {"DashboardPage", "getSignupsOverTime"}
  => LET tl == reply.value.timeline IN
     /\ Len(tl) = reply.days
     /\ \A k \in 1..(Len(tl) - 1) : tl[k + 1].date = tl[k].date + 1
     /\ \A k \in 1..Len(tl) : tl[k].count >= 0

\* C10 (as claimed): in every dashboard snapshot the counts of the bySource
\* buckets, the "Direct" bucket included, sum to total.
C10_SourcesSumToTotal ==
  reply.op = "DashboardPage"
  => SumCounts(reply.value.sources) = reply.value.total

\* the life of the guard in one browser: logins right and wrong, logout,
\* requests for admin pages, and time passing up to the Max-Age of a cookie
NextGuard ==
  \/ \E d \in {1, maxAge} : Pass(d)
  \/ \E b \in Browsers, h \in ForwardedFor, u \in Usernames, p \in Passwords :
       Login(b, h, u, p)
  \/ \E b \in Browsers : Logout(b)
  \/ \E b \in Browsers : BrowserRequest(b, "/admin/dashboard")
  \/ Render

SpecGuard == InitAuth /\ [][NextGuard]_vars

(***************************************************************************)
(* Logins in flight at the same time.  login awaits loginLimiter.limit(ip) *)
(* and goes on after the answer, so a call of login is three steps: it is  *)
(* sent, the limiter executes its call, and login continues with the       *)
(* credentials.  The logins are failing ones: a wrong password.            *)
(***************************************************************************)
WrongLogins ==
  { c \in Usernames \X Passwords :
      c[1] = Some(ADMIN_USERNAME) /\ c[2] # Some(ADMIN_PASSWORD) }

\* the login form is submitted: login runs up to its await of the limiter
LoginSent(s, h, username, password) ==
  /\ flight[s].pc = "idle"
  /\ flight' = [flight EXCEPT ![s] =
                  [pc |-> "limiting", ip |-> ClientIp(h),
                   username |-> username, password |-> password, at |-> 0]]
  /\ UNCHANGED << variant, store, now, writer, dash, reply, page, clock, hits,
                  failures, passed, jar, issued, gone, loggedOut, visit, resp >>

\* The limiter executes the call of slot s.  With no success login returns
\* the rate-limit error; else it goes on.
LimitAnswers(s) ==
  /\ flight[s].pc = "limiting"
  /\ LET ip == flight[s].ip
         lim == limit(hits[ip], clock)
         ret == login(FALSE, flight[s].username, flight[s].password)
     IN /\ hits' = [hits EXCEPT ![ip] = lim.times]
        /\ IF lim.success
           THEN /\ flight' = [flight EXCEPT ![s].pc = "admitted",
                                            ![s].at = clock]
                /\ resp' = resp
           ELSE /\ flight' = [flight EXCEPT ![s] = NoFlight]
                /\ resp' = [NoResp EXCEPT
                              !.op = "login", !.ip = ip,
                              !.username = flight[s].username,
                              !.password = flight[s].password,
                              !.out = ret.out, !.error = ret.error,
                              !.failedBefore = Len(Recent(failures[ip], clock))]
  /\ UNCHANGED << variant, store, now, writer, dash, reply, page, clock,
                  failures, passed, jar, issued, gone, loggedOut, visit >>

\* login continues after the await: it compares the credentials and, these
\* being wrong, returns Invalid credentials
Compare(s) ==
  /\ flight[s].pc = "admitted"
  /\ LET ip == flight[s].ip
         ret == login(TRUE, flight[s].username, flight[s].password)
     IN /\ ret.out = "invalid"
        /\ passed' = [passed EXCEPT ![ip] = Insert(@, flight[s].at)]
        /\ failures' = [failures EXCEPT ![ip] = Append(Recent(@, clock), clock)]
        /\ resp' = [NoResp EXCEPT
                      !.op = "login", !.ip = ip,
                      !.username = flight[s].username,
                      !.password = flight[s].password,
                      !.out = ret.out, !.error = ret.error,
                      !.failedBefore = Len(Recent(failures[ip], clock))]
  /\ flight' = [flight EXCEPT ![s] = NoFlight]
  /\ UNCHANGED << variant, store, now, writer, dash, reply, page, clock, hits,
                  jar, issued, gone, loggedOut, visit >>

NextRace ==
  \/ Pass(1)
  \/ \E s \in Slots, h \in ForwardedFor, c \in WrongLogins :
       LoginSent(s, h, c[1], c[2])
  \/ \E s \in Slots : LimitAnswers(s) \/ Compare(s)

SpecRace == InitAuth /\ [][NextRace]_vars

(***************************************************************************)
(* Admin Access Guard: properties.                                         *)
(***************************************************************************)
Matches(username, password) ==
  username = Some(ADMIN_USERNAME) /\ password = Some(ADMIN_PASSWORD)

RateLimitError == "Too many attempts. Try again in 15 minutes."

\* C11: a login that arrives when LimitTokens (5) or more logins from its
\* clientId have failed with Invalid credentials within the window is
\* refused with the rate-limit error whatever its credentials are, and it
\* sets no session cookie.
C11_SixthAttemptRateLimited ==
  (resp.op = "login" /\ resp.failedBefore >= LimitTokens)
  => /\ resp.out = "limited"
     /\ resp.error = RateLimitError
     /\ IsNull(resp.set)

\* the sixth attempt within the window carried the right credentials
C11_Witness ==
  /\ resp.op = "login"
  /\ resp.failedBefore = LimitTokens
  /\ Matches(resp.username, resp.password)
  /\ resp.out = "limited"
  /\ \A b \in Browsers : IsNull(jar[b])

\* C13 (as claimed): login issues a session if and only if username and
\* password both equal the configured credential, and every mismatch
\* returns the one error Invalid credentials.
C13_SessionIffCredentialsMatch ==
  resp.op = "login"
  => /\ ~IsNull(resp.set) <=> Matches(resp.username, resp.password)
     /\ ~Matches(resp.username, resp.password)
          => resp.error = "Invalid credentials"

\* C13 (amended): a login that the rate limiter lets pass issues a session
\* if and only if username and password both equal the configured
\* credential, and returns the one error Invalid credentials on every
\* mismatch; a login that the rate limiter refuses issues no session.
C13_PassedLoginSessionIffMatch ==
  resp.op = "login"
  => IF resp.out = "limited"
     THEN IsNull(resp.set) /\ resp.error = RateLimitError
     ELSE /\ ~IsNull(resp.set) <=> Matches(resp.username, resp.password)
          /\ ~IsNull(resp.set) => Val(resp.set) \in issued
          /\ ~Matches(resp.username, resp.password)
               => /\ resp.error = "Invalid credentials"
                  /\ resp.out = "invalid"

\* the right username with a wrong password got the same error that a wrong
\* username gets
C13_Witness ==
  /\ resp.op = "login"
  /\ resp.username = Some(ADMIN_USERNAME)
  /\ resp.password # Some(ADMIN_PASSWORD)
  /\ resp.error = "Invalid credentials"
  /\ IsNull(resp.set)
  /\ issued = {}

\* the request asks for a page behind the middleware
Guarded(r) == r.op = "request" /\ r.pathname # "/admin/login"

\* the cookie is a session that login issued, no more than 24 hours ago
ValidSession(r) ==
  /\ ~IsNull(r.cookie)
  /\ Val(r.cookie) \in issued
  /\ r.age <= maxAge

\* C12 (as claimed): a request to an /admin path other than the login page
\* that brings no session, or a tampered or expired one, is redirected to
\* the login page and runs no aggregation query; the queries run only once
\* the middleware has let the request pass; and a request to the login page
\* is never redirected.
C12_DashboardOnlyWithValidSession ==
  /\ visit.pc = "passed" => visit.req.out = "next" /\ visit.req.queries = 0
  /\ resp.op = "request" =>
       /\ resp.queries > 0 => resp.out = "page"
       /\ IF resp.pathname = "/admin/login"
          THEN resp.out # "redirect" /\ resp.queries = 0
          ELSE ~ValidSession(resp)
                 => resp.out = "redirect" /\ resp.queries = 0

\* C14 (as claimed): a session presented more than 24 hours after it was
\* issued is refused.
C14_ExpiredSessionRefused ==
  (Guarded(resp) /\ ~IsNull(resp.cookie) /\ resp.age > maxAge)
  => resp.out = "redirect"

\* C15 (as claimed): a request that presents a session which a logout has
\* destroyed is redirected to the login page.
C15_LogoutRevokesSession ==
  (Guarded(resp) /\ resp.destroyed) => resp.out = "redirect"

\* C15 (amended): logout removes the session cookie from the browser that
\* logged out: until that browser logs in again it holds no session cookie,
\* and its requests to /admin paths other than the login page are
\* redirected to the login page and run no aggregation query.
C15_LogoutClearsBrowserCookie ==
  /\ \A b \in loggedOut : IsNull(jar[b])
  /\ (Guarded(resp) /\ resp.fromJar /\ resp.afterLogout)
     => /\ resp.out = "redirect"
        /\ resp.to = "/admin/login"
        /\ resp.queries = 0

\* after a logout the browser asked for the dashboard and was redirected
C15_Witness ==
  /\ gone # {}
  /\ Guarded(resp) /\ resp.fromJar /\ resp.afterLogout
  /\ resp.pathname = "/admin/dashboard"
  /\ resp.out = "redirect"

(***************************************************************************)
(* The public page: properties.                                            *)
(***************************************************************************)
CountOps == { "getWaitlistCount", "GET /api/count", "Counter" }

\* C16 (as claimed): a count query that finds the store unreachable returns
\* an explicit error, not a count, so that its caller can tell a failed
\* fetch from an empty waitlist.
C16_UnreachableStoreIsAnError ==
  (reply.op \in CountOps /\ reply.failed)
  => reply.kind = "error"

\* the form of request r has dealt with what the action returned (the
\* skills form has nothing to do once the action has returned)
Handled(r) ==
  IF variant = "vanilla" THEN status[r] \in {"success", "error"}
  ELSE pc[r] = "done"

\* C18: a submit that returned success has caused one refresh of the
\* counter (vanilla: the form, having the result, calls
\* refreshWaitlistCount; skills: the action calls revalidatePath("/")
\* before it returns), and a submit that returned an error, or has not
\* returned, has caused none.
C18_RefreshOnSuccessOnly ==
  \A r \in Requests :
    /\ Handled(r) => refreshed[r] = IF IsSuccess(result[r]) THEN 1 ELSE 0
    /\ ~Handled(r) => refreshed[r] = 0
    /\ status[r] = "success" => IsSuccess(result[r])
    /\ status[r] = "error" => pc[r] = "done" /\ ~IsSuccess(result[r])

\* vanilla: the form of the page got success and its counter was refreshed
\* to the new count, while the submission of another visitor came back as a
\* duplicate and caused no refresh
C18_Witness ==
  /\ variant = "vanilla"
  /\ \E r1 \in Pages, r2 \in Done :
       /\ status[r1] = "success" /\ refreshed[r1] = 1
       /\ fetch[r1] = 0 /\ shown[r1] = ShowCount(1)
       /\ IsDuplicate(result[r2]) /\ refreshed[r2] = 0

(***************************************************************************)
(* The table as a log: properties.                                         *)
(***************************************************************************)
\* the step leaves every row that exists where and as it is
KeepsRows ==
  /\ Len(store') >= Len(store)
  /\ SubSeq(store', 1, Len(store)) = store

MaintenanceOps ==
  { "updateSignupStatus", "approveSignups", "softDeleteSignup", "deleteSignup" }

WriterStep == pc' # pc

C17_Step ==
  /\ WriterStep => KeepsRows /\ count(store') >= count(store)
  /\ ~KeepsRows => /\ reply'.op \in MaintenanceOps
                   /\ reply'.op # "deleteSignup" => count(store') = count(store)

RowsOf(table, e) == { i \in 1..Len(table) : table[i].email = e }

\* request r comes back from the database in this step
Settles(r) == pc[r] = "creating" /\ pc'[r] = "done"

C19_Step ==
  /\ KeepsRows
  /\ \A r \in Requests :
       /\ Cardinality(RowsOf(store', data'[r].email)) <= 1
       /\ ( /\ Settles(r)
            /\ HasEmail(store, data[r].email)
            /\ dbRes'[r] \notin OtherFailures )
          => IsDuplicate(result'[r])
       /\ ( /\ Settles(r)
            /\ ~HasEmail(store, data[r].email)
            /\ dbRes'[r] \notin OtherFailures )
          => /\ IsSuccess(result'[r])
             /\ HasEmail(store', data[r].email)

\* C19: retrying a submission is safe.  In every step the rows that were
\* written stay where and as they are (a completed write is never rolled
\* back, whether or not its caller saw it complete), there is at most one
\* row for the address of any submission, a submission that reaches the
\* database when the row of its address is written returns Duplicate, and
\* one that reaches it when no such row is written writes it and returns
\* success.
C19_RetryIsSafe == [][C19_Step]_vars

\* the first submission returned the retry message although its write had
\* completed; the retry of the same input, made after that, returned
\* Duplicate, and there is one row for the address
C19_Witness ==
  \E r1, r2 \in Done :
    /\ r1 # r2
    /\ Before(r1, r2)
    /\ inEmail[r1] = inEmail[r2]
    /\ IsTransient(result[r1])
    /\ IsDuplicate(result[r2])
    /\ Cardinality(RowsOf(store, data[r1].email)) = 1

(***************************************************************************)
(* The findUnique-then-create action: properties.                          *)
(***************************************************************************)
\* C20: when submissions of the same valid address have all returned and the
\* database was reachable for each of them, exactly one of them created the
\* row and returned success, and every other one returned the Duplicate
\* outcome (never the generic retry message), in whatever order their steps
\* were taken.
C20_FindThenCreateRaceFree ==
  \A x \in ExampleEmails \ {Null} :
    LET S == Identical(Val(x))
    IN ( /\ S # {}
         /\ zodEmail(Val(x))
         /\ S \subseteq Done
         /\ \A r \in S : Reachable(r) )
       => /\ Cardinality({ r \in S : IsSuccess(result[r]) }) = 1
          /\ \A r \in S : ~IsSuccess(result[r]) => IsDuplicate(result[r])
          /\ Cardinality(RowsOf(store, Val(x))) = 1

(***************************************************************************)
(* The login limiter: properties.                                          *)
(***************************************************************************)
\* C21: only failed logins count toward the threshold: a login is refused
\* with the rate-limit error only when LimitTokens (5) or more logins of
\* its clientId have failed within the window (so four failures, a
\* successful login and four more failures are not rate limited, and
\* successful logins never are).
C21_OnlyFailuresCount ==
  (resp.op = "login" /\ resp.out = "limited")
  => resp.failedBefore >= LimitTokens

\* the window of ip is full at time t
Blocked(ip, t) == Len(Recent(hits[ip], t)) >= LimitTokens

\* a login of ip is answered in this step
LoginStep(ip) == resp'.op = "login" /\ resp'.ip = ip /\ clock' = clock

C23_Step ==
  \A ip \in Ips :
    /\ LoginStep(ip) =>
         /\ resp'.out = "limited" <=> Blocked(ip, clock)
         /\ resp'.out = "limited" => hits'[ip] = Recent(hits[ip], clock)
         /\ ~Blocked(ip, clock) =>
              resp'.out = IF Matches(resp'.username, resp'.password)
                          THEN "session" ELSE "invalid"
    /\ clock' > clock =>
         /\ ( /\ Blocked(ip, clock)
              /\ Recent(hits[ip], clock)[1] > clock' - Window )
            => Blocked(ip, clock')
         /\ ( /\ hits[ip] # << >>
              /\ hits[ip][Len(hits[ip])] <= clock' - Window )
            => ~Blocked(ip, clock') /\ hits'[ip] = << >>

CountedIn(times, t) ==
  { i \in 1..Len(times) : times[i] > t - Window /\ times[i] <= t }

GuardState(b) ==
  IF middleware("/admin/dashboard", cookieOf(jar[b], clock), clock) = "next"
  THEN "Authenticated" ELSE "Anonymous"

\* a login of browser b returns in this step
LoginReturns(b) ==
  /\ resp'.op = "login" /\ resp'.browser = b
  /\ clock' = clock
  /\ resp' # resp \/ hits' # hits

\* a logout of browser b returns in this step
LogoutReturns(b) ==
  /\ resp'.op = "logout" /\ resp'.browser = b
  /\ resp.op # "logout" \/ gone' # gone

\* Authenticated is entered only through a login whose credentials match,
\* and is left only by logout or when time has passed until the cookie is
\* Max-Age old; a logout leaves the browser Anonymous
C24_EnterAndLeave(b) ==
  /\ (GuardState(b) = "Anonymous" /\ GuardState(b)' = "Authenticated")
     => /\ LoginReturns(b)
        /\ resp'.out = "session"
        /\ Matches(resp'.username, resp'.password)
  /\ (LoginReturns(b) /\ resp'.out = "session")
     => GuardState(b)' = "Authenticated"
  /\ (GuardState(b) = "Authenticated" /\ GuardState(b)' = "Anonymous")
     => \/ LogoutReturns(b)
        \/ /\ clock' > clock
           /\ clock' - Val(jar[b]).setAt >= maxAge
  /\ LogoutReturns(b) => GuardState(b)' = "Anonymous"

\* C24 (as claimed): the guard moves only along Anonymous -> Authenticating
\* -> Authenticated -> (Expired | LoggedOut) -> Anonymous, and a failed or
\* rate-limited attempt returns to Anonymous.
C24_GuardStateMachine ==
  [][\A b \in Browsers :
       /\ C24_EnterAndLeave(b)
       /\ (LoginReturns(b) /\ resp'.out \in {"invalid", "limited"})
          => GuardState(b)' = "Anonymous"]_vars

\* C24 (amended): as claimed, except that a failed or rate-limited attempt
\* returns to the state the browser was in: an Anonymous browser stays
\* Anonymous, and a browser that is Authenticated stays Authenticated with
\* the session it has.
C24_GuardKeepsStateOnFailure ==
  [][\A b \in Browsers :
       /\ C24_EnterAndLeave(b)
       /\ (LoginReturns(b) /\ resp'.out \in {"invalid", "limited"})
          => /\ GuardState(b)' = GuardState(b)
             /\ jar'[b] = jar[b]]_vars

\* the login of a browser that is Authenticated failed, and the browser is
\* still Authenticated
C24_Witness ==
  /\ resp.op = "login"
  /\ resp.out = "invalid"
  /\ GuardState(resp.browser) = "Authenticated"

(***************************************************************************)
(* The dashboard: properties.                                              *)
(***************************************************************************)
\* the records of the table that have no source
Absent(table) ==
  { i \in 1..Len(table) :
      IsNull(table[i].source) \/ Val(table[i].source) = "" }

\* the buckets of rows that carry the label
BucketsOf(rows, label) == { k \in 1..Len(rows) : rows[k].source = label }

\* getSignupsBySource returns in this step
BySourceReturns == reply'.op = "getSignupsBySource" /\ reply' # reply

C25_Step ==
  BySourceReturns =>
    LET rows == reply'.value.sources IN
    /\ Cardinality(BucketsOf(rows, "Direct")) =
         IF Absent(store) = {} THEN 0 ELSE 1
    /\ \A k \in BucketsOf(rows, "Direct") :
         rows[k].count = Cardinality(Absent(store))
    /\ BucketsOf(rows, "") = {}
    /\ \A k \in 1..Len(rows) :
         rows[k].source # "Direct" =>
           rows[k].count =
             Cardinality({ i \in 1..Len(store) :
                             store[i].source = Some(rows[k].source) })
    /\ SumCounts(rows) = count(store)
    /\ \A k \in 1..(Len(rows) - 1) : rows[k].count >= rows[k + 1].count

C27_TodayWeekTotal ==
  reply.op = "DashboardPage"
  => /\ reply.value.today <= reply.value.thisWeek
     /\ reply.value.thisWeek <= reply.value.total

\* a snapshot that getDashboardStats can return for the table at time t
Snapshot(table, t) ==
  [total |-> count(table),
   today |-> countSince(table, StartOfDay(t)),
   thisWeek |-> countSince(table, t - WeekDays * DayLen),
   sources |-> Take(CHOOSE rows \in OrdersDesc(SourceGroups(table)) : TRUE,
                    SourcesTake),
   timeline |-> getSignupsOverTime(table, t, DefaultDays)]

\* C26: aggregation is read-only and idempotent: no analytics call changes
\* a record, and on a table that does not change, at one reference time,
\* every call of getDashboardStats returns the same snapshot, whatever
\* other reads were made before it.
C26_ReadOnlyIdempotent ==
  /\ store \in ReadStores
  /\ reply.op = "DashboardPage"
     => reply = DashboardPage(Snapshot(store, now))

(***************************************************************************)
(* The vanilla client: properties.                                         *)
(***************************************************************************)
\* C28: the count that Counter displays never decreases, whatever the
\* interleaving of the periodic refresh and the refresh after a signup
\* (the count of the table never decreases).
C28_DisplayedCountNeverDecreases ==
  [][/\ count(store') >= count(store)
     /\ \A f \in Pages :
          (shown[f].state = "count" /\ shown'[f].state = "count")
          => shown'[f].n >= shown[f].n]_vars

C29_Step ==
  \A f \in Pages :
    /\ Cardinality(calls') <= 1
    /\ calls' # {} => disabled(status'[f])
    /\ \A r \in calls' \ calls :
         /\ calls = {}
         /\ ~disabled(status[f])
         /\ inEmail'[r] # Some(<< >>)
         /\ pc[r] = "idle" /\ pc'[r] # "idle"
    /\ \A r \in Requests :
         (pc[r] = "idle" /\ pc'[r] # "idle" /\ r \notin calls')
         => inEmail'[r] = Some(Addr("a")) /\ data'[r].source = Null

\* C29: at most one call of signup is in flight per form: a call is
\* started only while the form is not loading, the form is loading (input
\* and button disabled) as long as the call has not returned, and a submit
\* with an empty email starts no call.
C29_OneCallInFlight == [][C29_Step]_vars

\* the form was submitted again after its first call had returned with
\* success, and the second call is in flight
C29_Witness ==
  \E f \in Pages, r1, r2 \in Requests :
    /\ r1 # r2
    /\ calls = {r2}
    /\ pc[r2] = "creating"
    /\ status[f] = "loading"
    /\ pc[r1] = "done" /\ refreshed[r1] = 1

\* C30: every submission that enters the loading state eventually leaves
\* it for success or error.
C30_LoadingEnds ==
  \A f \in Pages :
    (status[f] = "loading") ~> (status[f] \in {"success", "error"})

=============================================================================
